---- MODULE Spec2Model ----
(***************************************************************************)
(* Entropy-Aware Kanban: the in-memory task store of the express server    *)
(* (version-gated PATCH, POST, DELETE, the corruption timer, the broadcast *)
(* of scored snapshots) and the React client's reconciliation of pushed    *)
(* snapshots against its pending optimistic updates.                       *)
(*                                                                         *)
(* Conventions:                                                            *)
(*  - time is counted in seconds (the source counts milliseconds; every    *)
(*    constant of the source is a whole number of seconds);                *)
(*  - a string that the code inspects character by character (title,       *)
(*    description) is a sequence of one-character strings;                 *)
(*  - a JavaScript object is a function from field names to values, a      *)
(*    field that was never assigned is absent from its DOMAIN;             *)
(*  - the warning sign of the corruption marker (two UTF-16 code units) is  *)
(*    written "!" "!", the block glyph of the vowel blackout "#";          *)
(*  - volatility_factor is counted in tenths (1..9 for [0.1, 1.0));        *)
(*  - field "oid" stands for the identity of the JavaScript object made by *)
(*    `new Task`: no request can name or change it.                        *)
(***************************************************************************)
EXTENDS Integers, Sequences, FiniteSets, TLC

\* ------------------------------------------------------------ bounds
MaxCreate == 2      \* accepted POSTs in one run
MaxPatch == 2       \* accepted PATCHes in one run
MaxAdvance == 2     \* steps of the clock
MaxCorrupt == 1     \* corruptions applied in one run
MaxDescLen == 3     \* longest description a corruption is explored on
NumClients == 1     \* browser clients
MaxRequests == 2    \* status changes a client sends in one run
MaxChannel == 2     \* tasks_updated messages in flight to one client
MaxStore == 3       \* tasks in a store drawn for the scorer

\* ------------------------------------------------- program constants
STALE_THRESHOLD == 30          \* 30 * 1000 ms
DEADLINE_AFTER == 604800       \* 7 * 24 * 60 * 60 * 1000 ms
TRUNCATE_LEN == 20             \* desc.substring(0, 20)

VARIABLES
    tasks,      \* server: `let tasks = []`, a sequence of Task objects
    now,        \* Date.now(), in seconds
    nextId,     \* number of Task objects constructed so far
    npatch,     \* number of PATCHes accepted so far
    ncorrupt,   \* number of corruptions applied so far
    last,       \* what happened last: for a request its method, id and
                \* expected version, the status code and payload answered
    connected,      \* client: the socket is connected
    channel,        \* tasks_updated messages on their way to each client
    uiTasks,        \* client: React state `tasks`
    pendingUpdates, \* client: pendingUpdates.current, a Map id -> task
    conflicts,      \* client: React state `conflicts`
    requests,       \* the clients' HTTP requests in flight, in sending order
    nreq            \* number of requests the clients have sent

serverVars == <<tasks, now, nextId, npatch, ncorrupt>>
clientVars == <<connected, uiTasks, pendingUpdates, conflicts, requests, nreq>>
vars == <<tasks, now, nextId, npatch, ncorrupt, last, connected, channel,
          uiTasks, pendingUpdates, conflicts, requests, nreq>>

Clients == 1..NumClients

\* ------------------------------------------------------------ strings
Str_a_b == <<"a", " ", "b">>
Str_blank == <<" ">>
Str_A == <<"A">>
Str_B == <<"B">>
Whitespace == {" "}
Vowels == {"a", "e", "i", "o", "u", "A", "E", "I", "O", "U"}

\* String.prototype.trim() === ''
IsBlank(s) == \A i \in DOMAIN s : s[i] \in Whitespace

Min(a, b) == IF a < b THEN a ELSE b

\* ---------------------------------------------------------- Task objects
Statuses == {"Todo", "Doing", "Done"}

\* new Task(title, description) at time `t`, the k-th object constructed,
\* Math.random() * 0.9 + 0.1 drawn as vf tenths
NewTask(k, title, description, t, vf) ==
    [oid |-> k, id |-> k, title |-> title, description |-> description,
     status |-> "Todo", created_at |-> t, updated_at |-> t,
     volatility_factor |-> vf, deadline |-> t + DEADLINE_AFTER, version |-> 0]

\* the draws of Math.random() * 0.9 + 0.1 that are explored, in tenths
VolatilityDraws == {5}

\* Object.assign(target, source)
ObjectAssign(target, source) ==
    [f \in (DOMAIN target) \cup (DOMAIN source) |->
        IF f \in DOMAIN source THEN source[f] ELSE target[f]]

\* tasks.findIndex(t => t.id === id); 0 stands for -1
FindIndex(ts, id) ==
    IF \E i \in DOMAIN ts : ts[i].id = id
    THEN CHOOSE i \in DOMAIN ts :
            ts[i].id = id /\ \A j \in DOMAIN ts : ts[j].id = id => i <= j
    ELSE 0

\* tasks.splice(index, 1)
Splice(ts, index) ==
    [i \in 1..(Len(ts) - 1) |-> IF i < index THEN ts[i] ELSE ts[i + 1]]

\* ------------------------------------------------------- priority score
\* A score is <<num, den>>: the value num / (10 * den), or +Infinity when
\* den = 0.
Infinity == <<1, 0>>

\* calculatePriorityScore with the time since creation in place of the time
\* since the last update
calculatePriorityScore_SinceCreation(task, t) ==
    LET timeSinceUpdate == t - task.created_at
        timeUntilDeadline == task.deadline - t
    IN  IF timeUntilDeadline <= 0 THEN Infinity
        ELSE <<timeSinceUpdate * task.volatility_factor, timeUntilDeadline>>

\* calculatePriorityScore(task) with Date.now() = t
calculatePriorityScore(task, t) ==
    LET timeSinceUpdate == t - task.updated_at
        timeUntilDeadline == task.deadline - t
    IN  IF timeUntilDeadline <= 0 THEN Infinity
        ELSE <<timeSinceUpdate * task.volatility_factor, timeUntilDeadline>>

\* a1 / a2 > b1 / b2 for a2 > 0 and b2 > 0, compared exactly by integer
\* parts and then by the reciprocals of the fractional parts, so that no
\* product of two large numbers is formed
RECURSIVE RatioGreater(_, _, _, _)
RatioGreater(a1, a2, b1, b2) ==
    LET qa == a1 \div a2
        qb == b1 \div b2
        ra == a1 % a2
        rb == b1 % b2
    IN  IF qa # qb THEN qa > qb
        ELSE IF ra = 0 THEN FALSE
        ELSE IF rb = 0 THEN TRUE
        ELSE RatioGreater(b2, rb, a2, ra)

\* a.priority_score > b.priority_score
ScoreGreater(a, b) ==
    IF a[2] = 0 THEN b[2] # 0
    ELSE IF b[2] = 0 THEN FALSE
    ELSE RatioGreater(a[1], a[2], b[1], b[2])

\* SortByScore with the comparator a.priority_score - b.priority_score
RECURSIVE SortByScore_Ascending(_)
SortByScore_Ascending(s) ==
    IF Len(s) <= 1 THEN s
    ELSE LET rest == SortByScore_Ascending(SubSeq(s, 1, Len(s) - 1))
             x == s[Len(s)]
             k == Cardinality({i \in DOMAIN rest :
                      ~ScoreGreater(rest[i].priority_score, x.priority_score)})
         IN  SubSeq(rest, 1, k) \o <<x>> \o SubSeq(rest, k + 1, Len(rest))

\* Array.prototype.sort((a, b) => b.priority_score - a.priority_score):
\* a stable sort, descending; Infinity - Infinity is NaN, which the sort
\* takes as 0 (equal).
RECURSIVE SortByScore(_)
SortByScore(s) ==
    IF Len(s) <= 1 THEN s
    ELSE LET rest == SortByScore(SubSeq(s, 1, Len(s) - 1))
             x == s[Len(s)]
             \* x goes after every element that is not strictly below it
             k == Cardinality({i \in DOMAIN rest :
                      ~ScoreGreater(x.priority_score, rest[i].priority_score)})
         IN  SubSeq(rest, 1, k) \o <<x>> \o SubSeq(rest, k + 1, Len(rest))

\* getTasksWithScores()
getTasksWithScores(ts, t) ==
    SortByScore([i \in DOMAIN ts |->
        ObjectAssign(ts[i], [priority_score |-> calculatePriorityScore(ts[i], t)])])

\* broadcastTasks(): io.emit('tasks_updated', getTasksWithScores()) puts one
\* message on the way to every connected socket
broadcastTasks(ch, conn, ts, t) ==
    [c \in DOMAIN ch |->
        IF conn[c] THEN Append(ch[c], getTasksWithScores(ts, t)) ELSE ch[c]]

\* ------------------------------------------------------ HTTP handlers
\* Each handler is the whole synchronous callback: given the store and the
\* request it yields the store afterwards, the response, and whether
\* broadcastTasks() was called.
NoBody == [none |-> TRUE]
Error(msg) == [error |-> msg]

\* `!title` for the title of a request body
TitleFalsy(body) == "title" \notin DOMAIN body \/ body.title = <<>>

\* app.post('/tasks'): k is the number of the object constructed, vf the
\* draw of Math.random() for volatility_factor
PostHandler(ts, body, t, k, vf) ==
    IF TitleFalsy(body)
    THEN [tasks |-> ts, code |-> 400, payload |-> Error("Title is required"),
          broadcast |-> FALSE]
    ELSE LET description ==
                 IF "description" \in DOMAIN body THEN body.description ELSE <<>>
             task == NewTask(k, body.title, description, t, vf)
         IN  [tasks |-> Append(ts, task), code |-> 201, payload |-> task,
              broadcast |-> TRUE]

\* PatchHandler with `task.version += 1` moved before Object.assign: the
\* body's version then overwrites the increment
PatchHandler_IncrementFirst(ts, id, body, t) ==
    LET i == FindIndex(ts, id) IN
    IF i = 0
    THEN [tasks |-> ts, code |-> 404, payload |-> Error("Task not found"),
          broadcast |-> FALSE]
    ELSE IF "version" \in DOMAIN body /\ body.version # ts[i].version
    THEN [tasks |-> ts, code |-> 409,
          payload |-> [error |-> "Version conflict",
                       current_version |-> ts[i].version,
                       current_task |-> ts[i]],
          broadcast |-> FALSE]
    ELSE LET bumped == [ts[i] EXCEPT !.version = @ + 1]
             assigned == ObjectAssign(bumped, body)
             task == [assigned EXCEPT !.updated_at = t]
         IN  [tasks |-> [ts EXCEPT ![i] = task], code |-> 200, payload |-> task,
              broadcast |-> TRUE]

\* PatchHandler with `task.updated_at = new Date()` moved before the version
\* check: a conflicting request stamps the task and is then rejected
PatchHandler_StampFirst(ts, id, body, t) ==
    LET i == FindIndex(ts, id) IN
    IF i = 0
    THEN [tasks |-> ts, code |-> 404, payload |-> Error("Task not found"),
          broadcast |-> FALSE]
    ELSE LET stamped == [ts[i] EXCEPT !.updated_at = t] IN
         IF "version" \in DOMAIN body /\ body.version # ts[i].version
         THEN [tasks |-> [ts EXCEPT ![i] = stamped], code |-> 409,
               payload |-> [error |-> "Version conflict",
                            current_version |-> stamped.version,
                            current_task |-> stamped],
               broadcast |-> FALSE]
         ELSE LET assigned == ObjectAssign(ts[i], body)
                  restamped == [assigned EXCEPT !.updated_at = t]
                  task == [restamped EXCEPT !.version = @ + 1]
              IN  [tasks |-> [ts EXCEPT ![i] = task], code |-> 200,
                   payload |-> task, broadcast |-> TRUE]

\* PatchHandler with the version check `clientVersion < task.version`: only
\* an older version is a conflict
PatchHandler_OlderOnly(ts, id, body, t) ==
    LET i == FindIndex(ts, id) IN
    IF i = 0
    THEN [tasks |-> ts, code |-> 404, payload |-> Error("Task not found"),
          broadcast |-> FALSE]
    ELSE IF "version" \in DOMAIN body /\ body.version < ts[i].version
    THEN [tasks |-> ts, code |-> 409,
          payload |-> [error |-> "Version conflict",
                       current_version |-> ts[i].version,
                       current_task |-> ts[i]],
          broadcast |-> FALSE]
    ELSE LET assigned == ObjectAssign(ts[i], body)
             stamped == [assigned EXCEPT !.updated_at = t]
             task == [stamped EXCEPT !.version = @ + 1]
         IN  [tasks |-> [ts EXCEPT ![i] = task], code |-> 200, payload |-> task,
              broadcast |-> TRUE]

\* PatchHandler with the version check `clientVersion !== task.version`: a
\* body without a version is a conflict
PatchHandler_VersionRequired(ts, id, body, t) ==
    LET i == FindIndex(ts, id) IN
    IF i = 0
    THEN [tasks |-> ts, code |-> 404, payload |-> Error("Task not found"),
          broadcast |-> FALSE]
    ELSE IF "version" \notin DOMAIN body \/ body.version # ts[i].version
    THEN [tasks |-> ts, code |-> 409,
          payload |-> [error |-> "Version conflict",
                       current_version |-> ts[i].version,
                       current_task |-> ts[i]],
          broadcast |-> FALSE]
    ELSE LET assigned == ObjectAssign(ts[i], body)
             stamped == [assigned EXCEPT !.updated_at = t]
             task == [stamped EXCEPT !.version = @ + 1]
         IN  [tasks |-> [ts EXCEPT ![i] = task], code |-> 200, payload |-> task,
              broadcast |-> TRUE]

\* app.patch('/tasks/:id')
PatchHandler(ts, id, body, t) ==
    LET i == FindIndex(ts, id) IN
    IF i = 0
    THEN [tasks |-> ts, code |-> 404, payload |-> Error("Task not found"),
          broadcast |-> FALSE]
    ELSE IF "version" \in DOMAIN body /\ body.version # ts[i].version
    THEN [tasks |-> ts, code |-> 409,
          payload |-> [error |-> "Version conflict",
                       current_version |-> ts[i].version,
                       current_task |-> ts[i]],
          broadcast |-> FALSE]
    ELSE LET assigned == ObjectAssign(ts[i], body)
             stamped == [assigned EXCEPT !.updated_at = t]
             task == [stamped EXCEPT !.version = @ + 1]
         IN  [tasks |-> [ts EXCEPT ![i] = task], code |-> 200, payload |-> task,
              broadcast |-> TRUE]

\* app.delete('/tasks/:id')
DeleteHandler(ts, id) ==
    LET index == FindIndex(ts, id) IN
    IF index = 0
    THEN [tasks |-> ts, code |-> 404, payload |-> Error("Task not found"),
          broadcast |-> FALSE]
    ELSE [tasks |-> Splice(ts, index), code |-> 204, payload |-> NoBody,
          broadcast |-> TRUE]

\* ------------------------------------------------------ corruption engine
CorruptedPrefix ==
    <<"!", "!", " ", "C", "O", "R", "R", "U", "P", "T", "E", "D", ":", " ">>

\* desc.split('').sort(() => Math.random() - 0.5).join(''): some permutation
Shuffles(desc) ==
    {[i \in DOMAIN desc |-> desc[p[i]]] : p \in Permutations(DOMAIN desc)}

\* desc.replace(/[aeiou]/gi, '#')
VowelBlackout(desc) ==
    [i \in DOMAIN desc |-> IF desc[i] \in Vowels THEN "#" ELSE desc[i]]

\* desc.split('').map(c => Math.random() > 0.7 ? '?' : c).join('')
Maskings(desc) ==
    {[i \in DOMAIN desc |-> IF i \in S THEN "?" ELSE desc[i]] :
        S \in SUBSET DOMAIN desc}

\* `!! CORRUPTED: ${desc.substring(0, 20)}...`
TruncateAndFlag(desc) ==
    CorruptedPrefix \o SubSeq(desc, 1, Min(TRUNCATE_LEN, Len(desc)))
        \o <<".", ".", ".">>

\* desc.split(' ').reverse().join(' ')
RECURSIVE ReverseWords(_)
ReverseWords(desc) ==
    IF \A i \in DOMAIN desc : desc[i] # " " THEN desc
    ELSE LET i == CHOOSE j \in DOMAIN desc :
                     desc[j] = " " /\ \A k \in 1..(j - 1) : desc[k] # " "
         IN  ReverseWords(SubSeq(desc, i + 1, Len(desc))) \o <<" ">>
                 \o SubSeq(desc, 1, i - 1)

\* corruptions[Math.floor(Math.random() * corruptions.length)](desc): what
\* the five methods can return
Corruptions(desc) ==
    Shuffles(desc) \cup {VowelBlackout(desc)} \cup Maskings(desc)
        \cup {TruncateAndFlag(desc)} \cup {ReverseWords(desc)}

\* StaleTasks with `timeSinceUpdate >= STALE_THRESHOLD`
StaleTasks_AtThreshold(ts, t) ==
    {i \in DOMAIN ts :
        LET timeSinceUpdate == t - ts[i].updated_at
        IN  ts[i].status = "Doing" /\ timeSinceUpdate >= STALE_THRESHOLD}

\* staleTasks, as the indexes of the store it selects
StaleTasks(ts, t) ==
    {i \in DOMAIN ts :
        LET timeSinceUpdate == t - ts[i].updated_at
        IN  ts[i].status = "Doing" /\ timeSinceUpdate > STALE_THRESHOLD}

\* CorruptTask as a write that also counts as an update: the version is
\* incremented
CorruptTask_Versioned(ts, i, d) ==
    [ts EXCEPT ![i] = ObjectAssign(ts[i], [description |-> d,
                                           corrupted |-> TRUE,
                                           version |-> ts[i].version + 1])]

\* the body of `if (randomTask.description)` applied to tasks[i], with the
\* corruption method's result d
CorruptTask(ts, i, d) ==
    [ts EXCEPT ![i] = ObjectAssign(@, [description |-> d, corrupted |-> TRUE])]

\* ------------------------------------------------------------ requests
RequestIds == 0..MaxCreate          \* 0 is the id of no task

PostBodies ==
    { [description |-> Str_a_b],                    \* title missing
      [title |-> <<>>],                             \* title empty
      [title |-> Str_blank],     \* title of whitespace, description missing
      [title |-> Str_A, description |-> Str_a_b] }

PatchBodies ==
    { [status |-> "Doing", version |-> v] : v \in 0..MaxPatch }
    \cup { [status |-> "Done", title |-> Str_B, updated_at |-> 0],
           [status |-> "Blocked"],
           [corrupted |-> FALSE],
           [created_at |-> 5, deadline |-> 0, volatility_factor |-> 10] }
    \cup { [id |-> k, version |-> 0] : k \in 1..MaxCreate }

\* ------------------------------------------------------------- actions
\* What `last` keeps of a request and its answer; version is the request
\* body's version, -1 when the body has none.
Response(op, id, body, code, payload) ==
    [op |-> op, id |-> id,
     version |-> IF "version" \in DOMAIN body THEN body.version ELSE -1,
     code |-> code, payload |-> payload]

Init ==
    /\ tasks = <<>>
    /\ now = 0
    /\ nextId = 0
    /\ npatch = 0
    /\ ncorrupt = 0
    /\ last = Response("none", 0, NoBody, 0, NoBody)
    /\ connected = [c \in Clients |-> FALSE]
    /\ channel = [c \in Clients |-> <<>>]
    /\ uiTasks = [c \in Clients |-> <<>>]
    /\ pendingUpdates = [c \in Clients |-> <<>>]
    /\ conflicts = [c \in Clients |-> <<>>]
    /\ requests = <<>>
    /\ nreq = 0

\* Room for one more message to every connected client
Room == \A c \in Clients : connected[c] => Len(channel[c]) < MaxChannel

\* Emit with broadcastTasks() called before the handler changes the store
Emit_BeforeMutation(r) ==
    /\ r.broadcast => Room
    /\ channel' = IF r.broadcast
                  THEN broadcastTasks(channel, connected, tasks, now)
                  ELSE channel

\* The effect on the sockets of a handler that ended with result r
Emit(r) ==
    /\ r.broadcast => Room
    /\ channel' = IF r.broadcast
                  THEN broadcastTasks(channel, connected, r.tasks, now)
                  ELSE channel

Post(body) ==
    \E vf \in VolatilityDraws :
        LET r == PostHandler(tasks, body, now, nextId + 1, vf) IN
        /\ r.code = 201 => nextId < MaxCreate
        /\ tasks' = r.tasks
        /\ nextId' = IF r.code = 201 THEN nextId + 1 ELSE nextId
        /\ last' = Response("POST", 0, body, r.code, r.payload)
        /\ Emit(r)
        /\ UNCHANGED <<now, npatch, ncorrupt>>
        /\ UNCHANGED clientVars

Patch(id, body) ==
    LET r == PatchHandler(tasks, id, body, now) IN
    /\ r.code = 200 => npatch < MaxPatch
    /\ tasks' = r.tasks
    /\ npatch' = IF r.code = 200 THEN npatch + 1 ELSE npatch
    /\ last' = Response("PATCH", id, body, r.code, r.payload)
    /\ Emit(r)
    /\ UNCHANGED <<now, nextId, ncorrupt>>
    /\ UNCHANGED clientVars

Delete(id) ==
    LET r == DeleteHandler(tasks, id) IN
    /\ tasks' = r.tasks
    /\ last' = Response("DELETE", id, NoBody, r.code, r.payload)
    /\ Emit(r)
    /\ UNCHANGED <<now, nextId, npatch, ncorrupt>>
    /\ UNCHANGED clientVars

\* one run of corruptStaleTasks() on its timer
TickResult(modified) ==
    Response("tick", 0, NoBody, 0, [modified |-> modified])

CorruptTick ==
    LET staleTasks == StaleTasks(tasks, now) IN
    \/ /\ staleTasks = {}
       /\ last' = TickResult(0)
       /\ UNCHANGED <<tasks, now, nextId, npatch, ncorrupt, channel>>
       /\ UNCHANGED clientVars
    \/ \E i \in staleTasks :
          /\ tasks[i].description = <<>>
          /\ last' = TickResult(0)
          /\ UNCHANGED <<tasks, now, nextId, npatch, ncorrupt, channel>>
          /\ UNCHANGED clientVars
    \/ \E i \in staleTasks :
          /\ tasks[i].description # <<>>
          /\ ncorrupt < MaxCorrupt
          /\ Len(tasks[i].description) <= MaxDescLen
          /\ \E d \in Corruptions(tasks[i].description) :
                tasks' = CorruptTask(tasks, i, d)
          /\ ncorrupt' = ncorrupt + 1
          /\ last' = TickResult(tasks[i].oid)
          /\ Room
          /\ channel' = broadcastTasks(channel, connected, tasks', now)
          /\ UNCHANGED <<now, nextId, npatch>>
          /\ UNCHANGED clientVars

\* time passes, one stale threshold at a time
Advance ==
    /\ now < MaxAdvance * STALE_THRESHOLD
    /\ now' = now + STALE_THRESHOLD
    /\ UNCHANGED <<tasks, nextId, npatch, ncorrupt, last, channel>>
    /\ UNCHANGED clientVars

\* ----------------------------------------------------------- the client
\* pendingUpdates.current.set(id, task) and .delete(id)
MapSet(m, id, task) ==
    [k \in (DOMAIN m) \cup {id} |-> IF k = id THEN task ELSE m[k]]
\* MapDelete that leaves the entry in place
MapDelete_Keep(m, id) == m
MapDelete(m, id) == [k \in (DOMAIN m) \ {id} |-> m[k]]

\* currentTasks.map(t => t.id === taskId ? task : t)
ReplaceById(view, taskId, task) ==
    [k \in DOMAIN view |-> IF view[k].id = taskId THEN task ELSE view[k]]

\* MergeSnapshot as `setTasks(updatedTasks)`: the snapshot replaces the view
MergeSnapshot_ServerWins(updatedTasks, pending) == updatedTasks

\* socket.on('tasks_updated'): the new value of `tasks`
MergeSnapshot(updatedTasks, pending) ==
    [k \in DOMAIN updatedTasks |->
        IF updatedTasks[k].id \in DOMAIN pending
        THEN pending[updatedTasks[k].id]
        ELSE updatedTasks[k]]

\* targetStatus of the column a card is shown in ("" for the Done column,
\* whose cards do not move)
TargetStatus(status) ==
    IF status = "Todo" THEN "Doing" ELSE IF status = "Doing" THEN "Done" ELSE ""

\* io.on('connection'): the server sends the client a first snapshot
Connect(c) ==
    /\ ~connected[c]
    /\ connected' = [connected EXCEPT ![c] = TRUE]
    /\ channel' = [channel EXCEPT
                      ![c] = Append(@, getTasksWithScores(tasks, now))]
    /\ last' = Response("connect", c, NoBody, 0, NoBody)
    /\ UNCHANGED serverVars
    /\ UNCHANGED <<uiTasks, pendingUpdates, conflicts, requests, nreq>>

\* Heartbeat as a timer whose callback emits nothing
Heartbeat_Idle ==
    /\ \E c \in Clients : connected[c]
    /\ Room
    /\ channel' = channel
    /\ last' = Response("heartbeat", 0, NoBody, 0, NoBody)
    /\ UNCHANGED serverVars
    /\ UNCHANGED clientVars

\* setInterval(() => broadcastTasks(), 2000)
Heartbeat ==
    /\ \E c \in Clients : connected[c]
    /\ Room
    /\ channel' = broadcastTasks(channel, connected, tasks, now)
    /\ last' = Response("heartbeat", 0, NoBody, 0, NoBody)
    /\ UNCHANGED serverVars
    /\ UNCHANGED clientVars

\* socket.on('tasks_updated') for the oldest message on its way to c
ReceiveSnapshot(c) ==
    /\ channel[c] # <<>>
    /\ LET updatedTasks == Head(channel[c]) IN
        /\ uiTasks' = [uiTasks EXCEPT
                          ![c] = MergeSnapshot(updatedTasks, pendingUpdates[c])]
        /\ last' = Response("tasks_updated", c, NoBody, 0,
                            [snapshot |-> updatedTasks])
    /\ channel' = [channel EXCEPT ![c] = Tail(@)]
    /\ UNCHANGED serverVars
    /\ UNCHANGED <<connected, pendingUpdates, conflicts, requests, nreq>>

\* handleStatusChange(taskId, newStatus) up to its `await`, for a click on
\* the Move button of the k-th card of client c
HandleStatusChange(c, k) ==
    LET card == uiTasks[c][k]
        taskId == card.id
        newStatus == TargetStatus(card.status)
        task == uiTasks[c][FindIndex(uiTasks[c], taskId)]
        optimisticTask ==
            ObjectAssign(task, [status |-> newStatus, updated_at |-> now])
        body == [status |-> newStatus, version |-> task.version]
    IN  /\ newStatus # ""
        /\ nreq < MaxRequests
        /\ uiTasks' = [uiTasks EXCEPT
                          ![c] = ReplaceById(@, taskId, optimisticTask)]
        /\ pendingUpdates' = [pendingUpdates EXCEPT
                                 ![c] = MapSet(@, taskId, optimisticTask)]
        /\ requests' = Append(requests,
                [method |-> "PATCH", client |-> c, id |-> taskId,
                 body |-> body, task |-> task, newStatus |-> newStatus,
                 state |-> "sent", code |-> 0, payload |-> NoBody])
        /\ nreq' = nreq + 1
        /\ last' = Response("handleStatusChange", taskId, body, 0, NoBody)
        /\ UNCHANGED serverVars
        /\ UNCHANGED <<connected, channel, conflicts>>

\* app.patch('/tasks/:id') run on the k-th request in flight
Serve(k) ==
    LET req == requests[k]
        r == PatchHandler(tasks, req.id, req.body, now)
    IN  /\ req.method = "PATCH"
        /\ req.state = "sent"
        /\ r.code = 200 => npatch < MaxPatch
        /\ tasks' = r.tasks
        /\ npatch' = IF r.code = 200 THEN npatch + 1 ELSE npatch
        /\ last' = Response("PATCH", req.id, req.body, r.code, r.payload)
        /\ Emit(r)
        /\ requests' = [requests EXCEPT
                           ![k] = [@ EXCEPT !.state = "answered",
                                            !.code = r.code,
                                            !.payload = r.payload]]
        /\ UNCHANGED <<now, nextId, ncorrupt>>
        /\ UNCHANGED <<connected, uiTasks, pendingUpdates, conflicts, nreq>>

\* requests.splice(k, 1)
Remove(seq, k) ==
    [i \in 1..(Len(seq) - 1) |-> IF i < k THEN seq[i] ELSE seq[i + 1]]

\* handleStatusChange after its `await`: the answer to the k-th request in
\* flight has arrived
HandleResponse(k) ==
    LET req == requests[k]
        c == req.client
        taskId == req.id
    IN  /\ req.method = "PATCH"
        /\ req.state = "answered"
        /\ pendingUpdates' = [pendingUpdates EXCEPT ![c] = MapDelete(@, taskId)]
        /\ \/ /\ req.code = 200
              /\ UNCHANGED <<uiTasks, conflicts>>
           \/ /\ req.code = 409
              /\ LET serverTask == req.payload.current_task
                     conflict == [id |-> now,
                                  taskTitle |-> req.task.title,
                                  attemptedStatus |-> req.newStatus,
                                  serverStatus |-> serverTask.status]
                 IN  /\ uiTasks' = [uiTasks EXCEPT
                                       ![c] = ReplaceById(@, taskId, serverTask)]
                     /\ conflicts' = [conflicts EXCEPT
                                         ![c] = Append(@, conflict)]
           \/ /\ req.code \notin {200, 409}
              /\ uiTasks' = [uiTasks EXCEPT
                                ![c] = ReplaceById(@, taskId, req.task)]
              /\ UNCHANGED conflicts
        /\ requests' = Remove(requests, k)
        /\ last' = Response("response", taskId, NoBody, req.code, NoBody)
        /\ UNCHANGED serverVars
        /\ UNCHANGED <<connected, channel, nreq>>

\* currentTasks.filter(t => t.id !== taskId)
FilterOutId(view, taskId) ==
    SelectSeq(view, LAMBDA t : t.id # taskId)

\* handleDeleteTask(taskId) up to its `await`, for a confirmed click on the
\* Delete button of the k-th card of client c
HandleDeleteTask(c, k) ==
    LET taskId == uiTasks[c][k].id
        task == uiTasks[c][FindIndex(uiTasks[c], taskId)]
    IN  /\ nreq < MaxRequests
        /\ uiTasks' = [uiTasks EXCEPT ![c] = FilterOutId(@, taskId)]
        /\ requests' = Append(requests,
                [method |-> "DELETE", client |-> c, id |-> taskId,
                 body |-> NoBody, task |-> task, newStatus |-> "",
                 state |-> "sent", code |-> 0, payload |-> NoBody])
        /\ nreq' = nreq + 1
        /\ last' = Response("handleDeleteTask", taskId, NoBody, 0, NoBody)
        /\ UNCHANGED serverVars
        /\ UNCHANGED <<connected, channel, pendingUpdates, conflicts>>

\* app.delete('/tasks/:id') run on the k-th request in flight
ServeDelete(k) ==
    LET req == requests[k]
        r == DeleteHandler(tasks, req.id)
    IN  /\ req.method = "DELETE"
        /\ req.state = "sent"
        /\ tasks' = r.tasks
        /\ last' = Response("DELETE", req.id, NoBody, r.code, r.payload)
        /\ Emit(r)
        /\ requests' = [requests EXCEPT
                           ![k] = [@ EXCEPT !.state = "answered",
                                            !.code = r.code,
                                            !.payload = r.payload]]
        /\ UNCHANGED <<now, nextId, npatch, ncorrupt>>
        /\ UNCHANGED <<connected, uiTasks, pendingUpdates, conflicts, nreq>>

\* handleDeleteTask after its `await`: the answer to the k-th request in
\* flight has arrived
HandleDeleteResponse(k) ==
    LET req == requests[k]
        c == req.client
    IN  /\ req.method = "DELETE"
        /\ req.state = "answered"
        /\ uiTasks' = IF req.code = 204
                      THEN uiTasks
                      ELSE [uiTasks EXCEPT ![c] = Append(@, req.task)]
        /\ requests' = Remove(requests, k)
        /\ last' = Response("deleteResponse", req.id, NoBody, req.code, NoBody)
        /\ UNCHANGED serverVars
        /\ UNCHANGED <<connected, channel, pendingUpdates, conflicts, nreq>>

\* The ways a request fails without an answer of the handlers: no response
\* at all (axios ERR_NETWORK, code 0) or a 500 from the server side.
FailureCodes == {0, 500}

\* the k-th request in flight fails before a handler has run on it
Fail(k) ==
    /\ requests[k].state = "sent"
    /\ \E code \in FailureCodes :
          /\ requests' = [requests EXCEPT
                             ![k] = [@ EXCEPT !.state = "answered",
                                              !.code = code]]
          /\ last' = Response("fail", requests[k].id, NoBody, code, NoBody)
    /\ UNCHANGED serverVars
    /\ UNCHANGED <<connected, channel, uiTasks, pendingUpdates, conflicts, nreq>>

\* what the form of handleCreateTask posts: a title that is not blank
FormBodies ==
    {body \in PostBodies : "title" \in DOMAIN body /\ ~IsBlank(body.title)}

Next ==
    \/ \E body \in PostBodies : Post(body)
    \/ \E id \in RequestIds, body \in PatchBodies : Patch(id, body)
    \/ \E id \in RequestIds : Delete(id)
    \/ CorruptTick
    \/ Advance

Spec == Init /\ [][Next]_vars

\* The server with its clients: tasks are created through the form, and
\* every update is a status change a client sends.
NextClient ==
    \/ \E body \in FormBodies : Post(body)
    \/ \E c \in Clients : Connect(c)
    \/ Heartbeat
    \/ \E c \in Clients : ReceiveSnapshot(c)
    \/ \E c \in Clients : \E k \in DOMAIN uiTasks[c] : HandleStatusChange(c, k)
    \/ \E k \in DOMAIN requests : Serve(k)
    \/ \E k \in DOMAIN requests : HandleResponse(k)
    \/ \E id \in 1..MaxCreate : Delete(id)
    \/ Advance

SpecClient == Init /\ [][NextClient]_vars

\* a click on Move by a user who waits for the answer to one status change
\* before making the next
StatusChangeInTurn(c, k) ==
    /\ requests = <<>>
    /\ HandleStatusChange(c, k)

\* The server with one client that is the only writer and changes statuses
\* one after another.
NextInTurn ==
    \/ \E body \in FormBodies : Post(body)
    \/ \E c \in Clients : Connect(c)
    \/ Heartbeat
    \/ \E c \in Clients : ReceiveSnapshot(c)
    \/ \E c \in Clients : \E k \in DOMAIN uiTasks[c] : StatusChangeInTurn(c, k)
    \/ \E k \in DOMAIN requests : Serve(k)
    \/ \E k \in DOMAIN requests : HandleResponse(k)
    \/ Advance

SpecInTurn == Init /\ [][NextInTurn]_vars

\* The server with a client whose requests may fail: tasks are created
\* through the form, updated by status changes and deleted from the board.
NextFailing ==
    \/ \E body \in FormBodies : Post(body)
    \/ \E c \in Clients : Connect(c)
    \/ Heartbeat
    \/ \E c \in Clients : ReceiveSnapshot(c)
    \/ \E c \in Clients : \E k \in DOMAIN uiTasks[c] : HandleStatusChange(c, k)
    \/ \E c \in Clients : \E k \in DOMAIN uiTasks[c] : HandleDeleteTask(c, k)
    \/ \E k \in DOMAIN requests : Serve(k)
    \/ \E k \in DOMAIN requests : ServeDelete(k)
    \/ \E k \in DOMAIN requests : Fail(k)
    \/ \E k \in DOMAIN requests : HandleResponse(k)
    \/ \E k \in DOMAIN requests : HandleDeleteResponse(k)
    \/ Advance

SpecFailing == Init /\ [][NextFailing]_vars

\* The server with a client whose status changes may overlap and fail, next
\* to deletions by others, all within one second; the heartbeat timer keeps
\* firing and every message sent to a connected client is delivered.
NextLive ==
    \/ \E body \in FormBodies : Post(body)
    \/ \E c \in Clients : Connect(c)
    \/ Heartbeat
    \/ \E c \in Clients : ReceiveSnapshot(c)
    \/ \E c \in Clients : \E k \in DOMAIN uiTasks[c] : HandleStatusChange(c, k)
    \/ \E k \in DOMAIN requests : Serve(k)
    \/ \E k \in DOMAIN requests : Fail(k)
    \/ \E k \in DOMAIN requests : HandleResponse(k)
    \/ \E id \in 1..MaxCreate : Delete(id)

Fairness ==
    /\ WF_vars(Heartbeat)
    /\ \A c \in Clients : WF_vars(ReceiveSnapshot(c))

SpecLive == Init /\ [][NextLive]_vars /\ Fairness

\* The scorer on its own: a store as creations and accepted updates leave
\* it, read at a time up to and past the deadlines.
ScoreVolatilityDraws == {1, 10}
ScoreNows ==
    { 2 * STALE_THRESHOLD, DEADLINE_AFTER - STALE_THRESHOLD, DEADLINE_AFTER,
      DEADLINE_AFTER + STALE_THRESHOLD }

\* a task created at c and, if u # c, updated at u by one accepted PATCH
ScoredTasks ==
    { [NewTask(0, Str_A, Str_a_b, c, vf) EXCEPT
          !.updated_at = u, !.version = IF u = c THEN 0 ELSE 1]
      : c \in {0, STALE_THRESHOLD},
        u \in {0, STALE_THRESHOLD, 2 * STALE_THRESHOLD},
        vf \in ScoreVolatilityDraws }

\* the stores drawn: tasks in creation order, numbered as they were pushed
ScoreStores ==
    LET seqs == UNION {[1..n -> {x \in ScoredTasks : x.updated_at >= x.created_at}]
                          : n \in 0..MaxStore}
    IN  { [k \in DOMAIN s |-> [s[k] EXCEPT !.oid = k, !.id = k]]
          : s \in {q \in seqs :
                      \A i \in DOMAIN q, j \in DOMAIN q :
                         i < j => q[i].created_at <= q[j].created_at} }

InitScore ==
    /\ tasks \in ScoreStores
    /\ now \in ScoreNows
    /\ nextId = Len(tasks)
    /\ npatch = 0
    /\ ncorrupt = 0
    /\ last = Response("none", 0, NoBody, 0, NoBody)
    /\ connected = [c \in Clients |-> FALSE]
    /\ channel = [c \in Clients |-> <<>>]
    /\ uiTasks = [c \in Clients |-> <<>>]
    /\ pendingUpdates = [c \in Clients |-> <<>>]
    /\ conflicts = [c \in Clients |-> <<>>]
    /\ requests = <<>>
    /\ nreq = 0

\* app.get('/tasks')
GetTasks ==
    /\ last' = Response("GET", 0, NoBody, 200,
                        [snapshot |-> getTasksWithScores(tasks, now)])
    /\ UNCHANGED serverVars
    /\ UNCHANGED <<channel>>
    /\ UNCHANGED clientVars

NextScore == GetTasks

SpecScore == InitScore /\ [][NextScore]_vars

\* The server with its sockets: requests that create, update and delete
\* tasks, the corruption timer, and clients that connect and take their
\* messages.
SocketPostBodies == {body \in PostBodies : ~TitleFalsy(body)}
SocketPatchBodies ==
    {body \in PatchBodies : body = [status |-> "Blocked"]
                               \/ body = [status |-> "Doing", version |-> 0]}

NextSockets ==
    \/ \E body \in SocketPostBodies : Post(body)
    \/ \E id \in 1..MaxCreate, body \in SocketPatchBodies : Patch(id, body)
    \/ \E id \in 1..MaxCreate : Delete(id)
    \/ CorruptTick
    \/ Advance
    \/ \E c \in Clients : Connect(c)
    \/ \E c \in Clients : ReceiveSnapshot(c)

SpecSockets == Init /\ [][NextSockets]_vars

\* ================================================================ claims
\* The stored task that is the same JavaScript object as task x
SameObject(ts, x) == {j \in DOMAIN ts : ts[j].oid = x.oid}

IsCorrupted(task) == "corrupted" \in DOMAIN task /\ task.corrupted = TRUE

\* C1. No lost updates: when an accepted PATCH that carried expected version
\* v is followed, with no other write in between, by a PATCH for the same
\* task id carrying the same expected version v, the second is answered 409
\* and its payload is the task as the first left it (version v + 1).
C1_NoLostUpdates ==
    [][\A id \in RequestIds, body \in PatchBodies :
          ( /\ Patch(id, body)
            /\ "version" \in DOMAIN body
            /\ last.op = "PATCH" /\ last.code = 200
            /\ last.id = id /\ last.version = body.version )
          => /\ last'.code = 409
             /\ last'.payload.current_version = body.version + 1
             /\ last'.payload.current_task = last.payload]_vars

\* A step in which the server answered a request of method op, or ran the
\* corruption timer (op = "tick"): every such step sets `last`, and the only
\* other step, Advance, moves the clock.
Served(op) == last'.op = op /\ now' = now

\* C1, for a first request whose body leaves the task's id alone: the
\* second request is answered 409 with the task as the first left it.
C1_NoLostUpdatesSameId ==
    [][ ( /\ Served("PATCH")
          /\ last'.version # -1
          /\ last.op = "PATCH" /\ last.code = 200
          /\ last.id = last'.id /\ last.version = last'.version
          /\ last.payload.id = last.id )
        => /\ last'.code = 409
           /\ last'.payload.current_version = last.version + 1
           /\ last'.payload.current_task = last.payload
           /\ tasks' = tasks]_vars

\* C2. Version monotonicity: an accepted PATCH, with or without a version in
\* its body, leaves the task's version at its prior version + 1; and in
\* every step a task that stays in the store keeps its version or gains
\* exactly 1.
C2_VersionMonotonic ==
    [][ /\ (Served("PATCH") /\ last'.code = 200)
           => LET i == FindIndex(tasks, last'.id)
              IN  /\ i # 0
                  /\ tasks'[i].oid = tasks[i].oid
                  /\ tasks'[i].version = tasks[i].version + 1
                  /\ last'.payload.version = tasks[i].version + 1
        /\ \A i \in DOMAIN tasks : \A j \in SameObject(tasks', tasks[i]) :
              tasks'[j].version \in {tasks[i].version, tasks[i].version + 1}
      ]_vars

\* a PATCH without a version was accepted on a task that had already been
\* updated and corrupted, bringing it to version 2
C2_Witness ==
    /\ last.op = "PATCH" /\ last.code = 200 /\ last.version = -1
    /\ last.payload.version = 2
    /\ IsCorrupted(last.payload)

\* C3. A rejected request never mutates the store: a PATCH answered 404 or
\* 409, a DELETE answered 404 and a POST answered 400 leave the sequence of
\* stored tasks, with every field of every task, as it was.
C3_RejectedLeavesStore ==
    [][ /\ (Served("PATCH") /\ last'.code \in {404, 409}) => tasks' = tasks
        /\ (Served("DELETE") /\ last'.code = 404) => tasks' = tasks
        /\ (Served("POST") /\ last'.code = 400) => tasks' = tasks
      ]_vars

\* a PATCH was answered 409 at a time later than the task's last update,
\* and the task is still stored as the payload shows it
C3_Witness ==
    /\ last.op = "PATCH" /\ last.code = 409
    /\ \E i \in DOMAIN tasks :
          /\ tasks[i] = last.payload.current_task
          /\ tasks[i].updated_at < now

\* C4. Conflict payload: a PATCH whose body carries a version different from
\* the version n of the task it addresses is answered 409 with
\* current_version = n and current_task the task exactly as stored.
C4_ConflictPayload ==
    [][LET i == FindIndex(tasks, last'.id) IN
          ( /\ Served("PATCH")
            /\ i # 0
            /\ last'.version # -1
            /\ last'.version # tasks[i].version )
          => /\ last'.code = 409
             /\ last'.payload.current_version = tasks[i].version
             /\ last'.payload.current_task = tasks[i]
             /\ last'.payload.current_task.version = tasks[i].version
             /\ tasks'[i] = tasks[i]]_vars

\* a PATCH carrying version 0 met a task at version 2 and was answered 409
\* with current_version 2
C4_Witness ==
    /\ last.op = "PATCH" /\ last.code = 409 /\ last.version = 0
    /\ last.payload.current_version = 2
    /\ last.payload.current_task.version = 2
    /\ \E i \in DOMAIN tasks : tasks[i] = last.payload.current_task

\* C5. Creation-time fields are immutable: in every step a task that stays
\* in the store keeps its id, created_at, deadline and volatility_factor.
C5_CreationFieldsImmutable ==
    [][\A i \in DOMAIN tasks : \A j \in SameObject(tasks', tasks[i]) :
          /\ tasks'[j].id = tasks[i].id
          /\ tasks'[j].created_at = tasks[i].created_at
          /\ tasks'[j].deadline = tasks[i].deadline
          /\ tasks'[j].volatility_factor = tasks[i].volatility_factor]_vars

\* C6. Corruption is irreversible: in every step a corrupted task that stays
\* in the store stays corrupted.
C6_CorruptionIrreversible ==
    [][\A i \in DOMAIN tasks : \A j \in SameObject(tasks', tasks[i]) :
          IsCorrupted(tasks[i]) => IsCorrupted(tasks'[j])]_vars

\* C7. Every stored task's status is one of Todo, Doing, Done.
C7_StatusInEnum ==
    \A i \in DOMAIN tasks : tasks[i].status \in Statuses

\* C8. Corruption scope: a tick of the corruption timer modifies only a task
\* that had status Doing and had not been updated for strictly more than the
\* stale threshold; it adds and removes no task.
C8_CorruptionScope ==
    [][Served("tick") =>
          /\ Len(tasks') = Len(tasks)
          /\ \A i \in DOMAIN tasks :
                tasks'[i] # tasks[i]
                => /\ tasks[i].status = "Doing"
                   /\ now - tasks[i].updated_at > STALE_THRESHOLD]_vars

\* a tick corrupted one task while the store also held a task that was not
\* Doing and a Doing task updated exactly one threshold ago or later
C8_Witness ==
    /\ last.op = "tick" /\ last.payload.modified # 0
    /\ \E i \in DOMAIN tasks :
          /\ tasks[i].oid = last.payload.modified
          /\ IsCorrupted(tasks[i])
    /\ \E i \in DOMAIN tasks :
          /\ tasks[i].oid # last.payload.modified
          /\ ~IsCorrupted(tasks[i])
          /\ \/ tasks[i].status # "Doing"
             \/ now - tasks[i].updated_at <= STALE_THRESHOLD

\* C9. Reconciliation non-clobber: right after a client has handled a
\* tasks_updated snapshot, its view lists the snapshot's tasks in the
\* snapshot's order, showing the pending shadow for every task whose id has
\* one and the snapshot's own value for every other task.
C9_NonClobber ==
    last.op = "tasks_updated"
    => LET c == last.id
           snapshot == last.payload.snapshot
       IN  /\ Len(uiTasks[c]) = Len(snapshot)
           /\ \A k \in DOMAIN snapshot :
                 IF snapshot[k].id \in DOMAIN pendingUpdates[c]
                 THEN uiTasks[c][k] = pendingUpdates[c][snapshot[k].id]
                 ELSE uiTasks[c][k] = snapshot[k]

\* a client has just handled a snapshot in which the server already shows a
\* newer version and another status for a task the client holds a shadow
\* of, next to a task it holds no shadow of
C9_Witness ==
    /\ last.op = "tasks_updated"
    /\ LET c == last.id
           snapshot == last.payload.snapshot
       IN  /\ \E k \in DOMAIN snapshot :
                 /\ snapshot[k].id \in DOMAIN pendingUpdates[c]
                 /\ snapshot[k].version > pendingUpdates[c][snapshot[k].id].version
                 /\ snapshot[k].status # pendingUpdates[c][snapshot[k].id].status
                 /\ uiTasks[c][k].status # snapshot[k].status
           /\ \E k \in DOMAIN snapshot :
                 snapshot[k].id \notin DOMAIN pendingUpdates[c]

\* C10. Create validation: a POST whose title is missing, empty or
\* whitespace-only is answered 400 and leaves the store as it was.
C10_CreateValidation ==
    [][\A body \in PostBodies :
          ( /\ Post(body)
            /\ ("title" \notin DOMAIN body \/ IsBlank(body.title)) )
          => /\ last'.code = 400
             /\ tasks' = tasks]_vars

\* C11. A PATCH whose body has no version field and whose id is that of a
\* stored task is accepted (200) whatever the task's version is, never
\* answered 409, and its body is applied to the task.
C11_UnversionedAccepted ==
    [][LET i == FindIndex(tasks, last'.id) IN
          (Served("PATCH") /\ last'.version = -1 /\ i # 0)
          => /\ last'.code = 200
             /\ tasks'[i].version = tasks[i].version + 1
             /\ tasks'[i] = last'.payload
             /\ tasks'[i].updated_at = now]_vars

\* a PATCH without a version moved a task that was already at version 1,
\* and had not been corrupted, to status Blocked
C11_Witness ==
    /\ last.op = "PATCH" /\ last.code = 200 /\ last.version = -1
    /\ last.payload.version = 2
    /\ last.payload.status = "Blocked"
    /\ ~IsCorrupted(last.payload)

\* C12. Event-driven broadcast: the step of an accepted create, an accepted
\* PATCH, an accepted delete or a corruption that modifies a task, and any
\* step that changes the store, also puts on the way to every connected
\* client one tasks_updated message, the snapshot of the store as that step
\* leaves it; no other change of the store comes in between.
C12_EventBroadcast ==
    [][ ( \/ tasks' # tasks
          \/ Served("POST") /\ last'.code = 201
          \/ Served("PATCH") /\ last'.code = 200
          \/ Served("DELETE") /\ last'.code = 204
          \/ Served("tick") /\ last'.payload.modified # 0 )
        => \A c \in Clients :
              connected[c]
              => channel'[c] =
                    Append(channel[c], getTasksWithScores(tasks', now))]_vars

\* a corruption tick has just pushed, behind an older message still on its
\* way, the snapshot that shows the corrupted task to a connected client
C12_Witness ==
    /\ last.op = "tick" /\ last.payload.modified # 0
    /\ \E c \in Clients :
          /\ connected[c]
          /\ Len(channel[c]) = 2
          /\ channel[c][2] = getTasksWithScores(tasks, now)
          /\ channel[c][1] # channel[c][2]
          /\ \E k \in DOMAIN channel[c][2] :
                /\ channel[c][2][k].oid = last.payload.modified
                /\ IsCorrupted(channel[c][2][k])

C14_ScoreSentinel ==
    [][Served("GET") =>
          \A k \in DOMAIN last'.payload.snapshot :
             LET x == last'.payload.snapshot[k] IN
             IF now >= x.deadline
             THEN x.priority_score = Infinity
             ELSE /\ x.priority_score # Infinity
                  /\ x.priority_score[2] = x.deadline - now
                  /\ x.priority_score[2] > 0
                  /\ x.priority_score[1] =
                        (now - x.updated_at) * x.volatility_factor]_vars

\* one snapshot scored two tasks read at the very moment of their deadline,
\* updated at different times with different volatility, next to a task
\* with time left that has a positive finite score
C14_Witness ==
    /\ last.op = "GET"
    /\ LET snapshot == last.payload.snapshot IN
       \E i \in DOMAIN snapshot, j \in DOMAIN snapshot, k \in DOMAIN snapshot :
          /\ snapshot[i].deadline = now
          /\ snapshot[i].priority_score = Infinity
          /\ snapshot[j].deadline = now
          /\ snapshot[j].updated_at # snapshot[i].updated_at
          /\ snapshot[j].volatility_factor # snapshot[i].volatility_factor
          /\ snapshot[j].priority_score = Infinity
          /\ snapshot[k].deadline > now
          /\ snapshot[k].priority_score # Infinity
          /\ snapshot[k].priority_score[1] > 0

\* C18. Corruption frame: a tick of the corruption timer changes at most one
\* task, and of that task only description and corrupted: every other
\* field, version, updated_at, status and title among them, is as before;
\* so a PATCH that follows a corruption and carries the version the task
\* had before it is accepted.
C18_CorruptionFrame ==
    [][ /\ Served("tick") =>
              /\ Len(tasks') = Len(tasks)
              /\ Cardinality({i \in DOMAIN tasks : tasks'[i] # tasks[i]}) <= 1
              /\ \A i \in DOMAIN tasks :
                    /\ DOMAIN tasks'[i] \subseteq DOMAIN tasks[i] \cup {"corrupted"}
                    /\ \A f \in DOMAIN tasks[i] \ {"description", "corrupted"} :
                          tasks'[i][f] = tasks[i][f]
                    /\ tasks'[i].version = tasks[i].version
                    /\ tasks'[i].updated_at = tasks[i].updated_at
                    /\ tasks'[i].status = tasks[i].status
                    /\ tasks'[i].title = tasks[i].title
        /\ LET i == FindIndex(tasks, last'.id) IN
              ( /\ last.op = "tick" /\ last.payload.modified # 0
                /\ Served("PATCH")
                /\ i # 0
                /\ tasks[i].oid = last.payload.modified
                /\ last'.version = tasks[i].version )
              => last'.code = 200
      ]_vars

\* a PATCH carrying version 1 was accepted on a task that a corruption tick
\* had modified while it was at version 1
C18_Witness ==
    /\ last.op = "PATCH" /\ last.code = 200 /\ last.version = 1
    /\ ncorrupt = 1
    /\ IsCorrupted(last.payload)
    /\ last.payload.version = 2

\* The requests of method m whose answer, of status `code` for task id, a
\* step has just handled and taken off the list of requests in flight
Handled(m, id, code) ==
    {k \in DOMAIN requests :
        /\ requests' = Remove(requests, k)
        /\ requests[k].method = m
        /\ requests[k].state = "answered"
        /\ requests[k].id = id
        /\ requests[k].code = code}

\* C15. Failed status change: a status change captures the task as the view
\* shows it before the optimistic change; when its request has failed, the
\* handling removes the shadow of that task id and, on 409, replaces the
\* local task by the response's current_task and enqueues one conflict
\* notice, and on a 5xx or a failure of the network replaces the local task
\* by the captured value, leaving the rest of the view as it was.
C15_FailureHandling ==
    [][ /\ Served("handleStatusChange") =>
              LET req == requests'[Len(requests')] IN
              \E j \in DOMAIN uiTasks[req.client] :
                 /\ uiTasks[req.client][j].id = req.id
                 /\ uiTasks[req.client][j] = req.task
        /\ (Served("response") /\ last'.code # 200) =>
              \A k \in Handled("PATCH", last'.id, last'.code) :
                 LET req == requests[k]
                     c == req.client
                     restored == IF req.code = 409
                                 THEN req.payload.current_task
                                 ELSE req.task
                 IN  /\ req.id \notin DOMAIN pendingUpdates'[c]
                     /\ Len(uiTasks'[c]) = Len(uiTasks[c])
                     /\ \A j \in DOMAIN uiTasks[c] :
                           uiTasks'[c][j] = IF uiTasks[c][j].id = req.id
                                            THEN restored
                                            ELSE uiTasks[c][j]
                     /\ conflicts'[c] =
                           IF req.code = 409
                           THEN Append(conflicts[c],
                                   [id |-> now,
                                    taskTitle |-> req.task.title,
                                    attemptedStatus |-> req.newStatus,
                                    serverStatus |->
                                       req.payload.current_task.status])
                           ELSE conflicts[c]
      ]_vars

\* a client has just handled a 409: it holds no shadow, shows one conflict
\* notice, and its card is the server's task at version 1 where the
\* optimistic card had status Done
C15_Witness ==
    /\ last.op = "response" /\ last.code = 409
    /\ \E c \in Clients :
          /\ pendingUpdates[c] = <<>>
          /\ Len(conflicts[c]) = 1
          /\ conflicts[c][1].attemptedStatus = "Done"
          /\ \E j \in DOMAIN uiTasks[c] :
                /\ uiTasks[c][j].id = last.id
                /\ uiTasks[c][j].version = 1
                /\ uiTasks[c][j].status = conflicts[c][1].serverStatus
                /\ \E i \in DOMAIN tasks : tasks[i] = uiTasks[c][j]

\* C16. Delete rollback: when a client has handled the failure of its DELETE
\* request, the task is in its view exactly once, whatever snapshots it
\* received while the request was in flight.
C16_DeleteRollback ==
    [][(Served("deleteResponse") /\ last'.code # 204) =>
          \A k \in Handled("DELETE", last'.id, last'.code) :
             LET c == requests[k].client IN
             Cardinality({j \in DOMAIN uiTasks'[c] :
                             uiTasks'[c][j].id = requests[k].id}) = 1]_vars

\* C17. Shadow coverage: whenever a status-change request of a client for a
\* task is in flight (sent, its response not yet handled), the client holds
\* a pending shadow for that task.
C17_ShadowCoversRequest ==
    \A k \in DOMAIN requests :
       requests[k].method = "PATCH"
       => requests[k].id \in DOMAIN pendingUpdates[requests[k].client]

\* C19. No self-conflict: when the one client is the only writer and sends
\* each status change only after it has handled the response to the one
\* before, every PATCH it sends carries the server's current version of the
\* task and is accepted; none is answered 409.
C19_NoSelfConflict ==
    [][Served("PATCH") =>
          LET i == FindIndex(tasks, last'.id) IN
          /\ i # 0
          /\ last'.version = tasks[i].version
          /\ last'.code = 200]_vars

\* The view of client c holds the stored tasks, each id once, every stored
\* field with its stored value (a card also carries the priority_score of
\* the snapshot it came from).
ViewMatchesStore(c) ==
    /\ Len(uiTasks[c]) = Len(tasks)
    /\ \A i \in DOMAIN tasks :
          \E j \in DOMAIN uiTasks[c] :
             /\ uiTasks[c][j].id = tasks[i].id
             /\ \A k \in DOMAIN uiTasks[c] :
                   uiTasks[c][k].id = tasks[i].id => k = j
             /\ \A f \in DOMAIN tasks[i] :
                   f \in DOMAIN uiTasks[c][j] /\ uiTasks[c][j][f] = tasks[i][f]

\* C20. Eventual convergence: if from some point on the store is not changed
\* any more and a client stays connected with no request in flight, then,
\* with heartbeats that keep firing and messages that keep being delivered,
\* from some point on the client's view equals the store for ever.
C20_Convergence ==
    \A c \in Clients :
       ( /\ <>[][tasks' = tasks]_vars
         /\ <>[](connected[c] /\ requests = <<>>) )
       => <>[]ViewMatchesStore(c)

\* a connected client that has had a conflict and has nothing in flight
\* shows the store, changed by its own accepted status change, with every
\* message delivered
C20_Witness ==
    \E c \in Clients :
       /\ connected[c]
       /\ requests = <<>>
       /\ nreq = MaxRequests
       /\ channel[c] = <<>>
       /\ conflicts[c] # <<>>
       /\ pendingUpdates[c] = <<>>
       /\ tasks # <<>>
       /\ \E i \in DOMAIN tasks : tasks[i].version = 1
       /\ ViewMatchesStore(c)

====
